---- MODULE Spec2Model ----
(***************************************************************************)
(* Binary discovery of the oxc VS Code client (src/client/findBinary.ts).  *)
(*                                                                         *)
(* A path is a sequence of tokens read from the filesystem root: <<>> is   *)
(* the root directory, <<"w1", "node_modules">> is /w1/node_modules.  A    *)
(* filename suffix the code adds or removes by string concatenation        *)
(* (".exe") is a token of its own at the end of the path.                  *)
(***************************************************************************)
EXTENDS Naturals, Integers, Sequences, FiniteSets, TLC

VARIABLES
  manifests,      \* disk: directory -> content of its package.json
  wsFolders,      \* workspace.workspaceFolders, as paths, in order
  resolvedPath,   \* replaceTargetFromMainToBin: argument resolvedPath
  binaryName,     \* the queried binary name
  resolution,     \* replaceTargetFromMainToBin: what the call produced
  cache,          \* cachedWorkspacePackageJsonNodeModules
  promises,       \* every promise findFiles gave, by number
  clears,         \* how often the cache was cleared
  held,           \* per caller: the promise its call returned
  platform,       \* process.platform
  files,          \* disk: the files workspace.fs.stat finds
  pc,             \* where the running call stands
  result,         \* what the call returned
  folders,        \* searchNodeModulesDefaultBinPath: argument folders
  candidates,     \* searchNodeModulesDefaultBinPath: candidates
  exists,         \* the answers of the stat calls that have come back
  pendingStats,   \* the stat calls still in flight, by candidate index
  outOfOrder,     \* a stat answered before one of an earlier candidate
  statLog,        \* every path the call has asked workspace.fs.stat about
  spawned,        \* what spawnSync gave for "npm root -g" and "pnpm root -g"
  setting,        \* searchSettingsBin: its argument, workspace.isTrusted and
                  \* the verdict of validateSafeBinaryPath
  settingsBinary, \* searchSettingsBin: the local variable settingsBinary
  call,           \* runExecutable: its arguments and the process.env it read
  spawns,         \* runExecutable: the spawnSync calls it made, in order
  runtime,        \* runExecutable: the runtime it resolved
  descriptor,     \* runExecutable: the Executable it returned
  launches,       \* how often runExecutable was called
  prevPath,       \* the env.PATH of the Executable of the call before
  processEnv      \* process.env: PATH and SHELL

envVars == <<manifests, wsFolders>>
resVars == <<resolvedPath, resolution>>
idxVars == <<cache, promises, clears>>
probeVars == <<folders, candidates, exists, pendingStats, outOfOrder, statLog>>
inVars == <<spawned, setting, settingsBinary>>
locVars == <<platform, files, pc, result, probeVars, inVars>>
lspVars ==
  <<call, spawns, runtime, descriptor, launches, prevPath, processEnv>>
vars == <<envVars, binaryName, resVars, idxVars, held, locVars, lspVars>>

----------------------------------------------------------------------------
(* Bounds *)

\* depth of the deepest directory of the ancestor chain the resolver walks
MaxDepth == 3
\* scans (calls of workspace.findFiles) in one run
MaxScans == 3
\* calls of clearWorkspacePackageJsonNodeModulesCache in one run
MaxClears == 2
\* concurrent callers of getWorkspacePackageJsonNodeModules
NumCallers == 3
\* folders handed to one searchNodeModulesDefaultBinPath call
MaxFolders == 2
\* lines the login shell prints
MaxLines == 2
\* calls of runExecutable in one run
MaxLaunches == 2

----------------------------------------------------------------------------
(* node:path *)

\* path.dirname: the root is its own parent
dirname(p) == IF p = <<>> THEN <<>> ELSE SubSeq(p, 1, Len(p) - 1)

\* path.join(dir, seg1, seg2, ...)
join(dir, segs) == dir \o segs

RECURSIVE normalize(_, _)
\* path.normalize of an absolute path: "." is dropped, ".." removes the
\* segment before it (and is dropped at the root)
normalize(done, rest) ==
  IF rest = <<>> THEN done
  ELSE IF Head(rest) = "." THEN normalize(done, Tail(rest))
  ELSE IF Head(rest) = ".."
    THEN normalize(IF done = <<>> THEN <<>> ELSE SubSeq(done, 1, Len(done) - 1),
                   Tail(rest))
  ELSE normalize(Append(done, Head(rest)), Tail(rest))

\* path.resolve(dir, entry) for an absolute dir: an absolute entry (first
\* token "/") replaces dir, a relative one is joined to it; then normalized
resolve(dir, entry) ==
  IF entry # <<>> /\ Head(entry) = "/"
    THEN normalize(<<>>, Tail(entry))
    ELSE normalize(<<>>, dir \o entry)

----------------------------------------------------------------------------
(* package.json contents *)

Names == {"x", "y"}

EntryX == <<"bin", "x.js">>
EntryY == <<"..", "tools", "y">>
Entries == {EntryX, EntryY}

\* no package.json in the directory: readFileSync throws
Missing == [kind |-> "missing"]
\* a package.json that is not JSON: JSON.parse throws
Unparsable == [kind |-> "unparsable"]
\* parsed manifests, by the three shapes of "bin"
NoBin == [kind |-> "json", bin |-> "none"]
BinString(e) == [kind |-> "json", bin |-> "string", entry |-> e]
BinMap(m) == [kind |-> "json", bin |-> "map", map |-> m]

\* the contents a package.json may have
Manifests ==
  {Missing, Unparsable, NoBin} \cup {BinString(e) : e \in Entries}
    \cup {BinMap(m) : m \in {[x |-> EntryX], [y |-> EntryY],
                             [x |-> EntryX, y |-> EntryY]}}

\* readFileSync(path.join(dir, "package.json"))
readFileSync(dir) ==
  IF dir \in DOMAIN manifests THEN manifests[dir] ELSE Missing

----------------------------------------------------------------------------
(* replaceTargetFromMainToBin *)

Failure(e) == [ok |-> FALSE, err |-> e]
Success(p) == [ok |-> TRUE, path |-> p]

\* binEntryOf without the typeof test: a string "bin" indexed by the name
binEntryOfNoString(pkg, name) ==
  IF pkg.bin = "map" /\ name \in DOMAIN pkg.map THEN pkg.map[name] ELSE <<>>

\* the bin entry the manifest gives for a name; <<>> stands for undefined
\* (and for the empty string, which is as falsy)
binEntryOf(pkg, name) ==
  IF pkg.bin = "string" THEN pkg.entry
  ELSE IF pkg.bin = "map" /\ name \in DOMAIN pkg.map THEN pkg.map[name]
  ELSE <<>>

RECURSIVE walkUpPastUnparsable(_, _)
\* a walk that takes a package.json it cannot parse for a missing one
walkUpPastUnparsable(dir, name) ==
  IF dir = dirname(dir) THEN Failure("ManifestNotFound")
  ELSE LET pkg == readFileSync(dir) IN
    IF pkg.kind \in {"missing", "unparsable"}
      THEN walkUpPastUnparsable(dirname(dir), name)
    ELSE IF binEntryOf(pkg, name) = <<>> THEN Failure("BinEntryNotFound")
    ELSE Success(resolve(dir, binEntryOf(pkg, name)))

RECURSIVE walkUp(_, _)
\* the while loop, entered with directory dir: it ends without a manifest
\* as soon as dir is its own parent, before reading anything there
walkUp(dir, name) ==
  IF dir = dirname(dir) THEN Failure("ManifestNotFound")
  ELSE LET pkg == readFileSync(dir) IN
    IF pkg.kind = "missing" THEN walkUp(dirname(dir), name)
    ELSE IF pkg.kind = "unparsable" THEN Failure("SyntaxError")
    ELSE IF binEntryOf(pkg, name) = <<>> THEN Failure("BinEntryNotFound")
    ELSE Success(resolve(dir, binEntryOf(pkg, name)))

replaceTargetFromMainToBin(from, name) == walkUp(dirname(from), name)

----------------------------------------------------------------------------
(* The resolver on its own: any manifests along one chain of directories,  *)
(* any starting file of the chain, any name.                               *)

Seg(i) == IF i = 1 THEN "w1" ELSE IF i = 2 THEN "node_modules"
          ELSE IF i = 3 THEN "x" ELSE "dist"

\* the directory k levels below the root
ChainDir(k) == [i \in 1..k |-> Seg(i)]
ChainDirs == {ChainDir(k) : k \in 0..MaxDepth}

NotCalled == [ok |-> FALSE, err |-> "not called"]

Absent == <<>>

\* runExecutable before its call
NoCall == [path |-> Absent, nodePath |-> Absent]
\* a process.env without PATH and SHELL
UnsetEnv == [PATH |-> <<>>, SHELL |-> Absent]
\* no runtime was resolved
NotResolved == [path |-> Absent, tier |-> "none"]
NoExecutable ==
  [command |-> Absent, args |-> <<>>, shell |-> FALSE,
   env |-> [PATH |-> <<>>, ELECTRON_RUN_AS_NODE |-> "unset"]]

\* runExecutable has not been called
LaunchIdle ==
  /\ call = NoCall
  /\ spawns = <<>>
  /\ runtime = NotResolved
  /\ descriptor = NoExecutable
  /\ launches = 0
  /\ prevPath = <<>>

\* no locator call is running
LocatorCallIdle ==
  /\ pc = "idle"
  /\ result = Absent
  /\ folders = <<>>
  /\ candidates = <<>>
  /\ exists = <<>>
  /\ pendingStats = {}
  /\ outOfOrder = FALSE
  /\ statLog = <<>>
  /\ spawned = <<>>
  /\ setting = [raw |-> Absent, abs |-> FALSE, trusted |-> FALSE, safe |-> FALSE]
  /\ settingsBinary = Absent

\* no call is running
LocatorIdle ==
  /\ LocatorCallIdle
  /\ LaunchIdle
  /\ processEnv = UnsetEnv

\* the memo and its callers as the module leaves them when loaded
IndexIdle ==
  /\ cache = 0
  /\ promises = <<>>
  /\ clears = 0
  /\ held = [c \in 1..NumCallers |-> [pid |-> 0]]

InitResolve ==
  /\ manifests \in [ChainDirs -> Manifests]
  /\ wsFolders = <<>>
  /\ IndexIdle
  /\ platform = "linux"
  /\ files = {}
  /\ LocatorIdle
  /\ resolvedPath \in {Append(d, "index.js") : d \in ChainDirs}
  /\ binaryName \in Names
  /\ resolution = NotCalled

CallResolver ==
  /\ resolution = NotCalled
  /\ resolution' = replaceTargetFromMainToBin(resolvedPath, binaryName)
  /\ UNCHANGED <<envVars, resolvedPath, binaryName, idxVars, held, locVars>>
  /\ UNCHANGED lspVars

NextResolve == CallResolver

SpecResolve == InitResolve /\ [][NextResolve]_vars

----------------------------------------------------------------------------
(* Claims about the resolver *)

Called == resolution # NotCalled

\* dir and every directory above it, the filesystem root included
Ancestors(dir) == {SubSeq(dir, 1, k) : k \in 0..Len(dir)}

\* the directories from the starting file's upwards that hold a package.json
ManifestDirs == {d \in Ancestors(dirname(resolvedPath)) : readFileSync(d) # Missing}

HasInnermost == ManifestDirs # {}
\* the nearest of them
Innermost == CHOOSE d \in ManifestDirs : \A e \in ManifestDirs : Len(e) <= Len(d)

\* the entry written out against directory d: "bin/x.js" is d/bin/x.js,
\* "../tools/y" is tools/y beside d
EntryUnder(d, e) ==
  IF e = EntryX THEN d \o <<"bin", "x.js">> ELSE dirname(d) \o <<"tools", "y">>

\* the innermost manifest parses and declares nothing for the queried name
InnermostLacksEntry ==
  /\ HasInnermost
  /\ readFileSync(Innermost).kind = "json"
  /\ \/ readFileSync(Innermost).bin = "none"
     \/ /\ readFileSync(Innermost).bin = "map"
        /\ binaryName \notin DOMAIN readFileSync(Innermost).map

\* C6: when the innermost package.json above the starting file declares no
\* entry for the queried name, resolution fails with the bin-entry-not-found
\* failure; no outer manifest and no other entry of the mapping is used.
C6_StopsAtInnermost ==
  (Called /\ InnermostLacksEntry) => resolution = Failure("BinEntryNotFound")

\* C7: resolution fails with the manifest-not-found failure exactly when no
\* directory from the starting file's up to and including the filesystem
\* root holds a manifest.
C7_NotFoundIffNoManifest ==
  Called => (resolution = Failure("ManifestNotFound") <=> ~HasInnermost)

\* C8: with the nearest manifest in directory D and its bin a mapping that
\* has the queried name, the result is the mapped entry resolved against D,
\* however deep under D the starting file lies.
C8_MappedEntryAgainstD ==
  (/\ Called
   /\ HasInnermost
   /\ readFileSync(Innermost).kind = "json"
   /\ readFileSync(Innermost).bin = "map"
   /\ binaryName \in DOMAIN readFileSync(Innermost).map)
  => resolution =
       Success(EntryUnder(Innermost, readFileSync(Innermost).map[binaryName]))

----------------------------------------------------------------------------
(* getWorkspacePackageJsonNodeModules and its cache *)

W1 == <<"w1">>
W2 == <<"w2">>
\* a nested package of a monorepo, and an installed package
App == <<"w1", "packages", "app">>
Installed == <<"w1", "node_modules", "x">>

NodeModules(d) == join(d, <<"node_modules">>)

Under(d, root) == Len(d) >= Len(root) /\ SubSeq(d, 1, Len(root)) = root
InNodeModules(d) == \E i \in DOMAIN d : d[i] = "node_modules"

\* the directories workspace.findFiles("**/package.json",
\* "**/node_modules/**") reports when it reads the disk now
OnDisk ==
  {d \in DOMAIN manifests :
     /\ manifests[d] # Missing
     /\ ~InNodeModules(d)
     /\ \E i \in DOMAIN wsFolders : Under(d, wsFolders[i])}

\* the orders a set may be listed in
Orders(S) ==
  {f \in [1..Cardinality(S) -> S] : \A i, j \in DOMAIN f : f[i] = f[j] => i = j}

Callers == 1..NumCallers
NoPromise == 0
Idle == [pid |-> NoPromise]

\* a memo that forgets a failed scan
StartsScanAfterFailure ==
  cache = NoPromise \/ promises[cache].state = "rejected"
\* the test of line 66 with the promise's state in place of its presence:
\* a memo of results, not of promises
StartsScanUnlessSettled ==
  cache = NoPromise \/ promises[cache].state = "pending"
\* if (!cachedWorkspacePackageJsonNodeModules)
StartsScan == cache = NoPromise

\* the promise workspace.findFiles(...).then(...) returns: pending, begun on
\* the disk as it is now
NewScan == [state |-> "pending", value |-> <<>>, start |-> OnDisk,
            end |-> {}, epoch |-> clears, endEpoch |-> clears]

\* getWorkspacePackageJsonNodeModules(): the cache and the promises after
\* the call; the call returns cache'
getWorkspacePackageJsonNodeModules ==
  IF StartsScan
    THEN /\ Len(promises) < MaxScans
         /\ promises' = Append(promises, NewScan)
         /\ cache' = Len(promises) + 1
    ELSE UNCHANGED <<cache, promises>>

\* a caller calls getWorkspacePackageJsonNodeModules() and keeps the promise
GetDependencyDirs(c) ==
  /\ held[c] = Idle
  /\ getWorkspacePackageJsonNodeModules
  /\ held' = [held EXCEPT ![c] =
                [pid |-> cache', epoch |-> clears, disk |-> OnDisk,
                 seen |-> IF StartsScan THEN "new" ELSE promises[cache].state]]
  /\ UNCHANGED <<envVars, binaryName, resVars, clears, locVars>>
  /\ UNCHANGED lspVars

\* clearing that spares a scan in flight
ClearUnlessPending ==
  IF cache # NoPromise /\ promises[cache].state = "pending"
    THEN cache' = cache ELSE cache' = NoPromise
\* cachedWorkspacePackageJsonNodeModules = undefined
ResetMemo == cache' = NoPromise

\* clearWorkspacePackageJsonNodeModulesCache()
ClearCache ==
  /\ clears < MaxClears
  /\ ResetMemo
  /\ clears' = clears + 1
  /\ UNCHANGED <<envVars, binaryName, resVars, promises, held, locVars>>
  /\ UNCHANGED lspVars

\* a .then that stores the scan it completes in the memo
ScanFulfilsIntoMemo(p) ==
  /\ p \in DOMAIN promises
  /\ promises[p].state = "pending"
  /\ \E S \in SUBSET OnDisk :
       /\ promises[p].start \subseteq S
       /\ \E o \in Orders(S) :
            promises' = [promises EXCEPT ![p] =
              [@ EXCEPT !.state = "fulfilled",
                        !.value = [i \in DOMAIN o |-> NodeModules(o[i])],
                        !.end = OnDisk,
                        !.endEpoch = clears]]
  /\ cache' = p
  /\ UNCHANGED <<envVars, binaryName, resVars, clears, held, locVars>>
  /\ UNCHANGED lspVars

\* findFiles answers: every package.json that was there when the scan began,
\* and possibly some that appeared since, in any order; the .then maps each
\* to its node_modules
ScanFulfils(p) ==
  /\ p \in DOMAIN promises
  /\ promises[p].state = "pending"
  /\ \E S \in SUBSET OnDisk :
       /\ promises[p].start \subseteq S
       /\ \E o \in Orders(S) :
            promises' = [promises EXCEPT ![p] =
              [@ EXCEPT !.state = "fulfilled",
                        !.value = [i \in DOMAIN o |-> NodeModules(o[i])],
                        !.end = OnDisk,
                        !.endEpoch = clears]]
  /\ UNCHANGED <<envVars, binaryName, resVars, cache, clears, held, locVars>>
  /\ UNCHANGED lspVars

\* findFiles fails: the promise is rejected
ScanRejects(p) ==
  /\ p \in DOMAIN promises
  /\ promises[p].state = "pending"
  /\ promises' = [promises EXCEPT ![p] = [@ EXCEPT !.state = "rejected",
                                                   !.end = OnDisk,
                                                   !.endEpoch = clears]]
  /\ UNCHANGED <<envVars, binaryName, resVars, cache, clears, held, locVars>>
  /\ UNCHANGED lspVars

\* a package.json is written into the workspace
AddManifest(d) ==
  /\ d \in DOMAIN manifests
  /\ manifests[d] = Missing
  /\ manifests' = [manifests EXCEPT ![d] = NoBin]
  /\ UNCHANGED <<wsFolders, binaryName, resVars, idxVars, held, locVars>>
  /\ UNCHANGED lspVars

InitIndex ==
  /\ wsFolders = <<W1>>
  /\ manifests \in [{W1, App, Installed} -> {Missing, NoBin}]
  /\ manifests[W1] = NoBin
  /\ binaryName = "x"
  /\ resolvedPath = <<>>
  /\ resolution = NotCalled
  /\ IndexIdle
  /\ platform = "linux"
  /\ files = {}
  /\ LocatorIdle

NextIndex ==
  \/ \E c \in Callers : GetDependencyDirs(c)
  \/ ClearCache
  \/ \E p \in 1..MaxScans : ScanFulfils(p)
  \/ \E p \in 1..MaxScans : ScanRejects(p)
  \/ \E d \in {App, Installed} : AddManifest(d)

SpecIndex == InitIndex /\ [][NextIndex]_vars

----------------------------------------------------------------------------
(* Claims about the cache *)

Holding(c) == held[c] # Idle
Settled(c) == Holding(c) /\ promises[held[c].pid].state # "pending"
ValueSet(p) == {promises[p].value[i] : i \in DOMAIN promises[p].value}

\* C4: between two clears at most one scan is started, and all the calls
\* made between the same two clears return the same promise, whether they
\* came first, while the scan was pending, or after it ended.
C4_SingleFlight ==
  /\ \A p, q \in DOMAIN promises :
       promises[p].epoch = promises[q].epoch => p = q
  /\ \A c, d \in Callers :
       (Holding(c) /\ Holding(d) /\ held[c].epoch = held[d].epoch)
         => held[c].pid = held[d].pid

\* C4 happens: three calls without a clear, one starting the scan, one made
\* while it was pending, one after it was fulfilled, and one scan only
C4_Witness ==
  /\ Len(promises) = 1
  /\ promises[1].state = "fulfilled"
  /\ \E c, d, e \in Callers :
       /\ Holding(c) /\ held[c].seen = "new"
       /\ Holding(d) /\ held[d].seen = "pending"
       /\ Holding(e) /\ held[e].seen = "fulfilled"

\* C5: a clear empties the memo whatever it held, so the promise a call
\* returns is of a scan begun after the last clear before the call, and a
\* fulfilled scan lists every package.json that was on disk when it began;
\* it lists none that appeared after it ended, so calls made without a clear
\* keep getting the result without the newer manifest.
C5_ClearThenFresh ==
  /\ \A c \in Callers : Holding(c) => promises[held[c].pid].epoch = held[c].epoch
  /\ \A p \in DOMAIN promises :
       promises[p].state = "fulfilled" =>
         /\ {NodeModules(d) : d \in promises[p].start} \subseteq ValueSet(p)
         /\ ValueSet(p) \subseteq {NodeModules(d) : d \in promises[p].end}

\* C5 happens: App's package.json appears after the first scan ended; a
\* call without a clear gets the stale list, then the cache is cleared with
\* the memo ready, and the next call's fresh scan lists App
C5_Witness ==
  \E c, d \in Callers :
    /\ Settled(c) /\ Settled(d)
    /\ held[c].seen = "fulfilled"
    /\ App \in held[c].disk
    /\ NodeModules(App) \notin ValueSet(held[c].pid)
    /\ held[d].epoch = held[c].epoch + 1
    /\ held[d].seen = "new"
    /\ NodeModules(App) \in ValueSet(held[d].pid)

----------------------------------------------------------------------------
(* searchNodeModulesDefaultBinPath *)

Platforms == {"linux", "win32"}

\* `${basePath}.exe`
Exe(p) == Append(p, ".exe")

\* path.join(folder, ".bin", binaryName)
BinPath(folder, name) == join(folder, <<".bin", name>>)

RECURSIVE flatMapCandidates(_, _)
\* folders.flatMap: per folder the base path, on win32 followed by its .exe
flatMapCandidates(name, fs) ==
  IF fs = <<>> THEN <<>>
  ELSE (IF platform = "win32"
          THEN <<BinPath(Head(fs), name), Exe(BinPath(Head(fs), name))>>
          ELSE <<BinPath(Head(fs), name)>>)
       \o flatMapCandidates(name, Tail(fs))

\* workspace.fs.stat(Uri.file(candidate)) succeeds
Stat(p) == p \in files

\* the last hit instead of the first
findLastIndex(ex) ==
  IF \E i \in DOMAIN ex : ex[i]
    THEN CHOOSE i \in DOMAIN ex : ex[i] /\ \A j \in DOMAIN ex : ex[j] => j <= i
    ELSE 0
\* exists.findIndex(Boolean), counted from 1; 0 stands for -1
findIndex(ex) ==
  IF \E i \in DOMAIN ex : ex[i]
    THEN CHOOSE i \in DOMAIN ex : ex[i] /\ \A j \in DOMAIN ex : ex[j] => i <= j
    ELSE 0

\* what searchNodeModulesDefaultBinPath returns once Promise.all is through
ProbeResult ==
  IF findIndex(exists) = 0 THEN Absent ELSE candidates[findIndex(exists)]

ProbePcs == {"probe", "tier2", "tier3", "global"}

\* the synchronous start of searchNodeModulesDefaultBinPath(name, fs): the
\* candidates are built and one stat per candidate is issued, in order
IssueProbe(name, fs) ==
  /\ folders' = fs
  /\ candidates' = flatMapCandidates(name, fs)
  /\ exists' = [i \in DOMAIN flatMapCandidates(name, fs) |-> FALSE]
  /\ pendingStats' = DOMAIN flatMapCandidates(name, fs)
  /\ outOfOrder' = FALSE
  /\ statLog' = statLog \o flatMapCandidates(name, fs)

\* one stat comes back, whichever
StatCompletes(i) ==
  /\ pc \in ProbePcs
  /\ i \in pendingStats
  /\ exists' = [exists EXCEPT ![i] = Stat(candidates[i])]
  /\ pendingStats' = pendingStats \ {i}
  /\ outOfOrder' = (outOfOrder \/ \E j \in pendingStats : j < i)
  /\ UNCHANGED <<envVars, binaryName, resVars, idxVars, held, platform, files,
                 pc, result, folders, candidates, statLog, inVars>>
  /\ UNCHANGED lspVars

\* Promise.all is through
AllStatsBack == pendingStats = {}

(* The probe on its own *)

BaseDirs == {NodeModules(W1), NodeModules(W2), NodeModules(App)}

FolderLists ==
  UNION {{f \in [1..n -> BaseDirs] : \A i, j \in 1..n : f[i] = f[j] => i = j}
           : n \in 0..MaxFolders}

InitProbe ==
  /\ wsFolders = <<>>
  /\ manifests = [d \in {W1} |-> Missing]
  /\ binaryName = "x"
  /\ resolvedPath = <<>>
  /\ resolution = NotCalled
  /\ IndexIdle
  /\ platform \in Platforms
  /\ files \in SUBSET ({BinPath(d, "x") : d \in BaseDirs}
                         \cup {Exe(BinPath(d, "x")) : d \in BaseDirs})
  /\ LocatorIdle

CallProbe(fs) ==
  /\ pc = "idle"
  /\ pc' = "probe"
  /\ IssueProbe(binaryName, fs)
  /\ UNCHANGED <<envVars, binaryName, resVars, idxVars, held, platform, files,
                 result, inVars>>
  /\ UNCHANGED lspVars

ProbeReturns ==
  /\ pc = "probe"
  /\ AllStatsBack
  /\ pc' = "returned"
  /\ result' = ProbeResult
  /\ UNCHANGED <<envVars, binaryName, resVars, idxVars, held, platform, files,
                 probeVars, inVars>>
  /\ UNCHANGED lspVars

NextProbe ==
  \/ \E fs \in FolderLists : CallProbe(fs)
  \/ \E i \in 1..(2 * MaxFolders) : StatCompletes(i)
  \/ ProbeReturns

SpecProbe == InitProbe /\ [][NextProbe]_vars

----------------------------------------------------------------------------
(* Claims about the probe *)

\* the folders, by position, that hold the binary in one of the forms the
\* platform looks for
Hits ==
  {k \in DOMAIN folders :
     \/ BinPath(folders[k], binaryName) \in files
     \/ platform = "win32" /\ Exe(BinPath(folders[k], binaryName)) \in files}

FirstHit == CHOOSE k \in Hits : \A h \in Hits : k <= h

\* C3: the probe returns the candidate of the earliest folder that has one
\* on disk (on Windows its unsuffixed path if that exists, else its .exe),
\* in whatever order the stat calls came back, and absent exactly when no
\* candidate is on disk.
C3_FirstInCallerOrder ==
  (pc = "returned") =>
    IF Hits = {} THEN result = Absent
    ELSE result = (IF BinPath(folders[FirstHit], binaryName) \in files
                     THEN BinPath(folders[FirstHit], binaryName)
                     ELSE Exe(BinPath(folders[FirstHit], binaryName)))

\* C3 happens: two folders both hold the binary, a stat of a later
\* candidate came back before an earlier one, and the first folder's wins
C3_Witness ==
  /\ pc = "returned"
  /\ Cardinality(Hits) >= 2
  /\ outOfOrder
  /\ result = BinPath(folders[1], binaryName)

----------------------------------------------------------------------------
(* searchProjectNodeModulesBin *)

\* the main file require.resolve(name, {paths}) gives when it finds the
\* package under search path root
MainOf(root, name) ==
  IF root # <<>> /\ root[Len(root)] = "node_modules"
    THEN join(root, <<name, "dist", "index.js">>)
    ELSE join(root, <<"node_modules", name, "dist", "index.js">>)

\* require.resolve(name, {paths}): it throws (Absent), or finds the package
\* under one of the paths
RequireResolve(name, paths) ==
  {Absent} \cup {MainOf(paths[i], name) : i \in DOMAIN paths}

\* lines 87-95 and 118-124: the bin path of the manifest above the main
\* file, or the failure the catch swallows
Tier1(main, name) ==
  IF main = Absent THEN Failure("ResolveFailed")
  ELSE replaceTargetFromMainToBin(main, name)

\* (workspace.workspaceFolders ?? []).map(folder => join(fsPath, "node_modules"))
workspaceNodeModules == [i \in DOMAIN wsFolders |-> NodeModules(wsFolders[i])]

\* a result that never counts
NeverTruthy(r) == FALSE
\* if (result)
Truthy(r) == r # Absent

\* the call up to its first await: tier 1, and when that throws the start
\* of the probe of the workspace folders' node_modules
CallProject(name, main) ==
  /\ pc = "idle"
  /\ main \in RequireResolve(name, wsFolders)
  /\ binaryName' = name
  /\ resolvedPath' = main
  /\ resolution' = Tier1(main, name)
  /\ IF Tier1(main, name).ok
       THEN /\ pc' = "returned"
            /\ result' = Tier1(main, name).path
            /\ UNCHANGED probeVars
       ELSE /\ pc' = "tier2"
            /\ IssueProbe(name, workspaceNodeModules)
            /\ UNCHANGED result
  /\ UNCHANGED <<envVars, idxVars, held, platform, files, inVars>>
  /\ UNCHANGED lspVars

\* lines 101-107: the probe of tier 2 is through; its hit is returned, or
\* the memo is asked for the workspace's node_modules and awaited
Tier2Done ==
  /\ pc = "tier2"
  /\ AllStatsBack
  /\ IF Truthy(ProbeResult)
       THEN /\ pc' = "returned"
            /\ result' = ProbeResult
            /\ UNCHANGED <<idxVars, held>>
       ELSE /\ pc' = "await"
            /\ getWorkspacePackageJsonNodeModules
            /\ held' = [held EXCEPT ![1] =
                 [pid |-> cache', epoch |-> clears, disk |-> OnDisk,
                  seen |-> IF StartsScan THEN "new" ELSE promises[cache].state]]
            /\ UNCHANGED <<result, clears>>
  /\ UNCHANGED <<envVars, binaryName, resVars, platform, files, probeVars, inVars>>
  /\ UNCHANGED lspVars

\* line 107-108: the awaited promise is fulfilled and the probe of tier 3
\* starts on its value
AwaitFulfilled ==
  /\ pc = "await"
  /\ promises[held[1].pid].state = "fulfilled"
  /\ pc' = "tier3"
  /\ IssueProbe(binaryName, promises[held[1].pid].value)
  /\ UNCHANGED <<envVars, binaryName, resVars, idxVars, held, platform, files,
                 result, inVars>>
  /\ UNCHANGED lspVars

\* line 107: the awaited promise is rejected; nothing catches it, so the
\* promise of searchProjectNodeModulesBin is rejected
AwaitRejected ==
  /\ pc = "await"
  /\ promises[held[1].pid].state = "rejected"
  /\ pc' = "rejected"
  /\ UNCHANGED <<envVars, binaryName, resVars, idxVars, held, platform, files,
                 result, probeVars, inVars>>
  /\ UNCHANGED lspVars

\* line 108: the probe of tier 3 is through and its result is the call's
Tier3Done ==
  /\ pc = "tier3"
  /\ AllStatsBack
  /\ pc' = "returned"
  /\ result' = ProbeResult
  /\ UNCHANGED <<envVars, binaryName, resVars, idxVars, held, platform, files,
                 probeVars, inVars>>
  /\ UNCHANGED lspVars

W1Bin == BinPath(NodeModules(W1), "x")
W2Bin == BinPath(NodeModules(W2), "x")
AppBin == BinPath(NodeModules(App), "x")
\* the file the installed package's manifest names: EntryX under Installed
Target == join(Installed, <<"bin", "x.js">>)

ProjectFiles == {W1Bin, Exe(W1Bin), W2Bin, AppBin, Exe(AppBin), Target}

InitProject ==
  /\ wsFolders \in {<<>>, <<W1>>, <<W1, W2>>, <<W2, W1>>}
  /\ manifests \in [{W1, App, Installed} -> Manifests]
  /\ manifests[W1] = NoBin
  /\ manifests[App] \in {Missing, NoBin}
  /\ manifests[Installed] \in
       {Missing, NoBin, BinString(EntryX), BinMap([x |-> EntryX])}
  /\ binaryName = "x"
  /\ resolvedPath = <<>>
  /\ resolution = NotCalled
  /\ IndexIdle
  /\ platform \in Platforms
  /\ files \in SUBSET ProjectFiles
  /\ LocatorIdle

NextProject ==
  \/ \E name \in Names : \E main \in RequireResolve(name, wsFolders) :
       CallProject(name, main)
  \/ \E i \in 1..(2 * Cardinality(DOMAIN manifests)) : StatCompletes(i)
  \/ Tier2Done
  \/ \E p \in 1..MaxScans : ScanFulfils(p)
  \/ \E p \in 1..MaxScans : ScanRejects(p)
  \/ AwaitFulfilled
  \/ AwaitRejected
  \/ Tier3Done

SpecProject == InitProject /\ [][NextProject]_vars

----------------------------------------------------------------------------
(* searchGlobalNodeModulesBin *)

\* what "npm root -g" and "pnpm root -g" print where they are installed
NpmRoot == <<"usr", "lib", "node_modules">>
PnpmRoot == <<"pnpm", "global", "node_modules">>
\* path.resolve(homedir(), ".bun/install/global/node_modules")
BunRoot == <<"home", ".bun", "install", "global", "node_modules">>

Whitespace == {" ", "\n"}

RECURSIVE trimStart(_)
trimStart(out) ==
  IF out # <<>> /\ Head(out) \in Whitespace THEN trimStart(Tail(out)) ELSE out

RECURSIVE trimEnd(_)
trimEnd(out) ==
  IF out # <<>> /\ out[Len(out)] \in Whitespace
    THEN trimEnd(SubSeq(out, 1, Len(out) - 1)) ELSE out

\* result.stdout.trim()
trim(out) == trimEnd(trimStart(out))

\* what spawnSync may give: it throws, it reports an error, the command
\* exits with a status, it prints something
SpawnResults(root) ==
  {[threw |-> TRUE, error |-> FALSE, status |-> 0, stdout |-> <<>>],
   [threw |-> FALSE, error |-> TRUE, status |-> 0, stdout |-> <<>>],
   [threw |-> FALSE, error |-> FALSE, status |-> 1, stdout |-> root \o <<"\n">>],
   [threw |-> FALSE, error |-> FALSE, status |-> 0, stdout |-> <<" ", "\n">>],
   [threw |-> FALSE, error |-> FALSE, status |-> 0, stdout |-> root \o <<"\n">>]}

\* a wrapper that does not look at the exit status
spawnSyncIgnoringStatus(r) ==
  IF r.threw THEN Absent
  ELSE IF r.error THEN Absent
  ELSE trim(r.stdout)
\* safeSpawnSync, given what spawnSync gave; Absent stands for undefined
safeSpawnSync(r) ==
  IF r.threw THEN Absent
  ELSE IF r.error \/ r.status # 0 THEN Absent
  ELSE trim(r.stdout)

\* [...].filter(Boolean)
filterBoolean(xs) == SelectSeq(xs, LAMBDA x : x # Absent)

\* globalNodeModulesPaths()
globalNodeModulesPaths(npm, pnpm) ==
  filterBoolean(<<safeSpawnSync(npm), safeSpawnSync(pnpm), BunRoot>>)

\* the call up to its first await: the global roots, tier 1, and when that
\* throws the start of the probe of the global roots
CallGlobal(name, npm, pnpm, main) ==
  /\ pc = "idle"
  /\ main \in RequireResolve(name, globalNodeModulesPaths(npm, pnpm))
  /\ spawned' = <<npm, pnpm>>
  /\ binaryName' = name
  /\ resolvedPath' = main
  /\ resolution' = Tier1(main, name)
  /\ IF Tier1(main, name).ok
       THEN /\ pc' = "returned"
            /\ result' = Tier1(main, name).path
            /\ UNCHANGED probeVars
       ELSE /\ pc' = "global"
            /\ IssueProbe(name, globalNodeModulesPaths(npm, pnpm))
            /\ UNCHANGED result
  /\ UNCHANGED <<envVars, idxVars, held, platform, files, setting,
                 settingsBinary>>
  /\ UNCHANGED lspVars

\* line 127: the probe is through and its result is the call's
GlobalProbeDone ==
  /\ pc = "global"
  /\ AllStatsBack
  /\ pc' = "returned"
  /\ result' = ProbeResult
  /\ UNCHANGED <<envVars, binaryName, resVars, idxVars, held, platform, files,
                 probeVars, inVars>>
  /\ UNCHANGED lspVars

NpmInstalled == join(NpmRoot, <<"x">>)
PnpmInstalled == join(PnpmRoot, <<"x">>)
GlobalFiles ==
  {BinPath(NpmRoot, "x"), Exe(BinPath(NpmRoot, "x")), BinPath(PnpmRoot, "x"),
   BinPath(BunRoot, "x"), Exe(BinPath(BunRoot, "x")),
   join(NpmInstalled, <<"bin", "x.js">>)}

InitGlobal ==
  /\ wsFolders = <<>>
  /\ manifests \in [{NpmInstalled, PnpmInstalled} ->
       {Missing, BinString(EntryX), BinMap([x |-> EntryX])}]
  /\ manifests[PnpmInstalled] \in {Missing, BinString(EntryX)}
  /\ binaryName = "x"
  /\ resolvedPath = <<>>
  /\ resolution = NotCalled
  /\ IndexIdle
  /\ platform \in Platforms
  /\ files \in SUBSET GlobalFiles
  /\ LocatorIdle

NextGlobal ==
  \/ \E name \in Names :
       \E npm \in SpawnResults(NpmRoot), pnpm \in SpawnResults(PnpmRoot) :
         \E main \in RequireResolve(name, globalNodeModulesPaths(npm, pnpm)) :
           CallGlobal(name, npm, pnpm, main)
  \/ \E i \in 1..6 : StatCompletes(i)
  \/ GlobalProbeDone

SpecGlobal == InitGlobal /\ [][NextGlobal]_vars

----------------------------------------------------------------------------
(* searchSettingsBin *)

\* a test that never sees the suffix
neverEndsWithExe(p) == FALSE
\* settingsBinary.endsWith(".exe")
endsWithExe(p) == p # <<>> /\ p[Len(p)] = ".exe"
\* settingsBinary.slice(0, -4)
sliceExe(p) == SubSeq(p, 1, Len(p) - 1)

\* lines 145-157: the path the first stat is asked about, for a setting that
\* passed the gates; a relative one is joined to the first workspace folder
PreparedPath(st) ==
  LET joined == IF st.abs THEN st.raw
                ELSE normalize(<<>>, join(wsFolders[1], st.raw)) IN
  IF platform # "win32" /\ endsWithExe(joined) THEN sliceExe(joined) ELSE joined

\* the gates without the trust test
GatedOutTrusting(st) ==
  \/ ~st.safe
  \/ ~st.abs /\ wsFolders = <<>>
\* lines 136-152: the call returns undefined before any stat
GatedOut(st) ==
  \/ ~st.trusted
  \/ ~st.safe
  \/ ~st.abs /\ wsFolders = <<>>

\* the call up to its first await
CallSettings(st) ==
  /\ pc = "idle"
  /\ setting' = st
  /\ IF GatedOut(st)
       THEN /\ pc' = "returned"
            /\ UNCHANGED <<settingsBinary, statLog>>
       ELSE /\ pc' = "stat1"
            /\ settingsBinary' = PreparedPath(st)
            /\ statLog' = Append(statLog, PreparedPath(st))
  /\ UNCHANGED <<envVars, binaryName, resVars, idxVars, held, platform, files,
                 result, folders, candidates, exists, pendingStats, outOfOrder,
                 spawned>>
  /\ UNCHANGED lspVars

\* lines 159-174: the first stat is back; found, the path is returned; not
\* found on win32, the path gets ".exe" unless it ends with it and stat is
\* asked again; not found elsewhere, undefined is returned
Stat1Back ==
  /\ pc = "stat1"
  /\ IF Stat(settingsBinary)
       THEN /\ pc' = "returned"
            /\ result' = settingsBinary
            /\ UNCHANGED <<settingsBinary, statLog>>
       ELSE IF platform = "win32"
         THEN /\ pc' = "stat2"
              /\ settingsBinary' = (IF endsWithExe(settingsBinary)
                                      THEN settingsBinary
                                      ELSE Exe(settingsBinary))
              /\ statLog' = Append(statLog, settingsBinary')
              /\ UNCHANGED result
         ELSE /\ pc' = "returned"
              /\ UNCHANGED <<result, settingsBinary, statLog>>
  /\ UNCHANGED <<envVars, binaryName, resVars, idxVars, held, platform, files,
                 folders, candidates, exists, pendingStats, outOfOrder,
                 spawned, setting>>
  /\ UNCHANGED lspVars

\* lines 170-177: the second stat is back
Stat2Back ==
  /\ pc = "stat2"
  /\ pc' = "returned"
  /\ result' = (IF Stat(settingsBinary) THEN settingsBinary ELSE Absent)
  /\ UNCHANGED <<envVars, binaryName, resVars, idxVars, held, platform, files,
                 probeVars, inVars>>
  /\ UNCHANGED lspVars

W1Tool == <<"w1", "tools", "x">>
W2Tool == <<"w2", "tools", "x">>
SettingsFiles == {W1Tool, Exe(W1Tool), W2Tool, Exe(W2Tool)}

\* the values of the setting: absolute or relative, with or without .exe
Settings ==
  {[raw |-> r, abs |-> a, trusted |-> t, safe |-> v] :
     r \in {W1Tool, Exe(W1Tool)}, a \in {TRUE}, t \in BOOLEAN, v \in BOOLEAN}
  \cup
  {[raw |-> r, abs |-> a, trusted |-> t, safe |-> v] :
     r \in {<<"tools", "x">>, <<"tools", "x", ".exe">>,
            <<".", "tools", "..", "tools", "x">>},
     a \in {FALSE}, t \in BOOLEAN, v \in BOOLEAN}

InitSettings ==
  /\ wsFolders \in {<<>>, <<W1>>, <<W1, W2>>, <<W2, W1>>}
  /\ manifests = [d \in {W1} |-> NoBin]
  /\ binaryName = "x"
  /\ resolvedPath = <<>>
  /\ resolution = NotCalled
  /\ IndexIdle
  /\ platform \in Platforms
  /\ files \in SUBSET SettingsFiles
  /\ LocatorIdle

NextSettings ==
  \/ \E st \in Settings : CallSettings(st)
  \/ Stat1Back
  \/ Stat2Back

SpecSettings == InitSettings /\ [][NextSettings]_vars

----------------------------------------------------------------------------
(* runExecutable of client/tools/lsp_helper: the runtime resolver and the
   builder of the launch descriptor *)

\* the canonical command of the runtime
NodeCommand == <<"node">>
\* the nodePath the caller hands in
CustomNode == <<"custom", "node", "bin", "node">>
\* where the login shell finds the runtime
HomebrewNode == <<"opt", "homebrew", "bin", "node">>
\* process.execPath
ExecPath == <<"app", "code">>
\* process.env.SHELL
Zsh == <<"bin", "zsh">>

\* the path delimiter of the platform, a PATH entry of its own
delimiter == IF platform = "win32" THEN <<";">> ELSE <<":">>

\* the values of process.env.PATH: unset, two directories, and one that
\* already holds the directories of CustomNode and of HomebrewNode
HostPaths ==
  {<<>>,
   <<<<"usr", "bin">>, delimiter, <<"bin">>>>,
   <<dirname(CustomNode), delimiter, dirname(HomebrewNode)>>}

ServerStem == <<"path", "to", "server">>
\* the paths handed in as the server to launch
Targets ==
  {Append(ServerStem, ".js"), Append(ServerStem, ".cjs"),
   Append(ServerStem, ".mjs"), Append(ServerStem, ".json"),
   <<"path", "to", "oxc-language-server">>,
   <<"Path With Spaces", "oxc-language-server">>}

\* what the shell prints, line by line
Lines == {<<>>, <<"noise">>, HomebrewNode}
LineSeqs == UNION {[1..n -> Lines] : n \in 0..MaxLines}

RECURSIVE printed(_)
\* the standard output of a process that printed the lines ls
printed(ls) ==
  IF ls = <<>> THEN <<>> ELSE Head(ls) \o <<"\n">> \o printed(Tail(ls))

\* what spawnSync may give for the check of the canonical command
NodeCheckResults ==
  {[threw |-> TRUE, error |-> FALSE, status |-> 0, stdout |-> <<>>],
   [threw |-> FALSE, error |-> TRUE, status |-> 0, stdout |-> <<>>],
   [threw |-> FALSE, error |-> FALSE, status |-> 1, stdout |-> <<>>],
   [threw |-> FALSE, error |-> FALSE, status |-> 0, stdout |-> <<"v22", "\n">>]}

\* what spawnSync may give for the login shell: it throws, it times out, it
\* exits non-zero, it prints its lines
ShellResults ==
  {[threw |-> TRUE, error |-> FALSE, status |-> 0, stdout |-> <<>>],
   [threw |-> FALSE, error |-> TRUE, status |-> 0, stdout |-> <<>>],
   [threw |-> FALSE, error |-> FALSE, status |-> 1,
    stdout |-> printed(<<HomebrewNode>>)]}
  \cup {[threw |-> FALSE, error |-> FALSE, status |-> 0, stdout |-> printed(ls)] :
          ls \in LineSeqs}

\* the subprocess ran and exited with 0
spawnOk(r) == ~r.threw /\ ~r.error /\ r.status = 0

RECURSIVE splitLines(_, _)
\* stdout.split("\n"), cur being the line read so far
splitLines(out, cur) ==
  IF out = <<>> THEN <<cur>>
  ELSE IF Head(out) = "\n" THEN <<cur>> \o splitLines(Tail(out), <<>>)
  ELSE splitLines(Tail(out), Append(cur, Head(out)))

\* the lines that are not empty
nonEmptyLines(out) == SelectSeq(splitLines(out, <<>>), LAMBDA l : l # <<>>)

\* the first line that is not empty
firstNonEmptyLine(out) ==
  IF nonEmptyLines(out) = <<>> THEN Absent ELSE nonEmptyLines(out)[1]
\* the last line that is not empty, Absent when there is none
lastNonEmptyLine(out) ==
  IF nonEmptyLines(out) = <<>> THEN Absent
  ELSE nonEmptyLines(out)[Len(nonEmptyLines(out))]

\* a caller's path that is never taken
ignoresExplicit(explicitPath) == FALSE
\* tier 1: an explicit path was supplied
usesExplicit(explicitPath) == explicitPath # Absent

NodeSpawn(r) == [command |-> NodeCommand, args |-> <<"--version">>, result |-> r]
ShellSpawn(sh, r) == [command |-> sh, args |-> <<"-ilc">>, result |-> r]

\* tier 4: the runtime that hosts the process
hostFallback == [path |-> ExecPath, tier |-> "host"]

\* tiers 3 and 4, after the check of the canonical command failed
afterPathCheck(sh, nodeRes, shellRes) ==
  IF sh = Absent
    THEN [rt |-> hostFallback, spawns |-> <<NodeSpawn(nodeRes)>>]
  ELSE IF spawnOk(shellRes) /\ lastNonEmptyLine(shellRes.stdout) # Absent
    THEN [rt |-> [path |-> lastNonEmptyLine(shellRes.stdout), tier |-> "login"],
          spawns |-> <<NodeSpawn(nodeRes), ShellSpawn(sh, shellRes)>>]
  ELSE [rt |-> hostFallback,
        spawns |-> <<NodeSpawn(nodeRes), ShellSpawn(sh, shellRes)>>]

\* resolveRuntimePath(explicitPath?): the runtime and the subprocesses run
resolveRuntimePath(explicitPath, sh, nodeRes, shellRes) ==
  IF usesExplicit(explicitPath)
    THEN [rt |-> [path |-> explicitPath, tier |-> "explicit"], spawns |-> <<>>]
  ELSE IF spawnOk(nodeRes)
    THEN [rt |-> [path |-> NodeCommand, tier |-> "path"],
          spawns |-> <<NodeSpawn(nodeRes)>>]
  ELSE afterPathCheck(sh, nodeRes, shellRes)

\* only ".js" counts as a script
isJsOnly(p) == p # <<>> /\ p[Len(p)] = ".js"
\* the target is a script the runtime executes
isScript(p) == p # <<>> /\ p[Len(p)] \in {".js", ".cjs", ".mjs"}

\* a command left as it is
unquoted(p) == p
\* `"${path}"`
quoted(p) == <<"\"">> \o p \o <<"\"">>

\* a prepend that leaves out a directory PATH already holds
prependUnlessPresent(dir, prev) ==
  IF \E i \in DOMAIN prev : prev[i] = dir THEN prev
  ELSE <<dir, delimiter>> \o prev
\* the directory, the delimiter, the previous PATH
prependPath(dir, prev) == <<dir, delimiter>> \o prev

\* the flag is never set
neverRunAsNode(rt) == "unset"
\* ELECTRON_RUN_AS_NODE of the child: set when the host runtime is the fallback
runAsNode(rt) == IF rt.tier = "host" THEN "1" ELSE "unset"

\* the runtime of a call: resolved for a script, and for a binary only the
\* one the caller supplied
runtimeOf(target, explicitPath, sh, nodeRes, shellRes) ==
  IF isScript(target) \/ explicitPath # Absent
    THEN resolveRuntimePath(explicitPath, sh, nodeRes, shellRes)
    ELSE [rt |-> NotResolved, spawns |-> <<>>]

\* the environment of the child
envOf(rt, path) ==
  [PATH |-> IF rt.tier \in {"explicit", "login", "host"}
              THEN prependPath(dirname(rt.path), path) ELSE path,
   ELECTRON_RUN_AS_NODE |-> runAsNode(rt)]

\* the Executable for a target and the runtime resolved for it
executableOf(target, rt, path) ==
  IF isScript(target)
    THEN [command |-> rt.path, args |-> <<target, <<"--lsp">>>>,
          shell |-> FALSE, env |-> envOf(rt, path)]
    ELSE [command |-> IF platform = "win32" THEN quoted(target) ELSE target,
          args |-> <<<<"--lsp">>>>,
          shell |-> (platform = "win32"), env |-> envOf(rt, path)]

\* runExecutable(path, tool, nodePath?), with what its subprocesses give
runExecutable(target, nodePath, nodeRes, shellRes) ==
  /\ launches < MaxLaunches
  /\ call' = [path |-> target, nodePath |-> nodePath]
  /\ spawns' =
       runtimeOf(target, nodePath, processEnv.SHELL, nodeRes, shellRes).spawns
  /\ runtime' =
       runtimeOf(target, nodePath, processEnv.SHELL, nodeRes, shellRes).rt
  /\ descriptor' = executableOf(target, runtime', processEnv.PATH)
  /\ launches' = launches + 1
  /\ prevPath' = descriptor.env.PATH
  /\ UNCHANGED <<envVars, binaryName, resVars, idxVars, held, locVars,
                 processEnv>>

InitLaunch ==
  /\ wsFolders = <<>>
  /\ manifests = [d \in {W1} |-> NoBin]
  /\ binaryName = "x"
  /\ resolvedPath = <<>>
  /\ resolution = NotCalled
  /\ IndexIdle
  /\ platform \in Platforms
  /\ files = {}
  /\ LocatorCallIdle
  /\ LaunchIdle
  /\ processEnv \in [PATH : HostPaths, SHELL : {Absent, Zsh}]

\* the results of the subprocesses a call does not run are not inputs
NodeInputs(target, nodePath) ==
  IF isScript(target) /\ nodePath = Absent THEN NodeCheckResults
  ELSE {CHOOSE r \in NodeCheckResults : spawnOk(r)}
ShellInputs(target, nodePath, nodeRes) ==
  IF /\ isScript(target)
     /\ nodePath = Absent
     /\ processEnv.SHELL # Absent
     /\ ~spawnOk(nodeRes)
    THEN ShellResults
    ELSE {CHOOSE r \in ShellResults : r.threw}

NextLaunch ==
  \E target \in Targets, nodePath \in {Absent, CustomNode} :
    \E nodeRes \in NodeInputs(target, nodePath) :
      \E shellRes \in ShellInputs(target, nodePath, nodeRes) :
        runExecutable(target, nodePath, nodeRes, shellRes)

SpecLaunch == InitLaunch /\ [][NextLaunch]_vars

----------------------------------------------------------------------------
(* Claims about the locators *)

\* C1: a locator call ends with a path or with absent; its promise is never
\* rejected, whichever collaborator fails.
C1_LocatorsTotal == pc # "rejected"

\* the workspace folders, by position, with the binary in their
\* node_modules/.bin in a form the platform looks for
WsHits ==
  {k \in DOMAIN wsFolders :
     \/ BinPath(NodeModules(wsFolders[k]), binaryName) \in files
     \/ /\ platform = "win32"
        /\ Exe(BinPath(NodeModules(wsFolders[k]), binaryName)) \in files}

FirstWsHit == CHOOSE k \in WsHits : \A h \in WsHits : k <= h

\* what tier 2 has to yield when WsHits is not empty
FirstWsBin ==
  IF BinPath(NodeModules(wsFolders[FirstWsHit]), binaryName) \in files
    THEN BinPath(NodeModules(wsFolders[FirstWsHit]), binaryName)
    ELSE Exe(BinPath(NodeModules(wsFolders[FirstWsHit]), binaryName))

\* C2: the project locator asks stat about a workspace candidate, or the
\* memo for the workspace's manifests, only after tier 1 failed, and the
\* memo only when no workspace folder holds the binary; a path of tier 1 is
\* the result with no probe and no scan made, and a hit of tier 2 is the
\* result with no scan made, whatever tier 3 would have found.
C2_TiersInOrder ==
  (pc # "idle") =>
    /\ (statLog # <<>> \/ Holding(1) \/ promises # <<>>) => ~resolution.ok
    /\ (Holding(1) \/ promises # <<>>) => WsHits = {}
    /\ (pc = "returned" /\ resolution.ok) =>
         (result = resolution.path /\ statLog = <<>>)
    /\ (pc = "returned" /\ ~resolution.ok /\ WsHits # {}) =>
         (result = FirstWsBin /\ Len(statLog) = Len(candidates))

\* C2 happens: tier 1 failed, the first workspace folder holds the binary
\* and so does the nested package tier 3 would have scanned for; the call
\* returns the workspace folder's
C2_Witness ==
  /\ pc = "returned"
  /\ ~resolution.ok
  /\ wsFolders = <<W1, W2>>
  /\ AppBin \in files
  /\ App \in OnDisk
  /\ W2Bin \in files
  /\ result = W1Bin
  /\ promises = <<>>

\* C10: a path a locator returns is one it asked stat about in this call,
\* and stat found it.
C10_ReturnedPathVerified ==
  (pc = "returned" /\ result # Absent) =>
    /\ \E i \in DOMAIN statLog : statLog[i] = result
    /\ Stat(result)

----------------------------------------------------------------------------
(* Claims about searchSettingsBin *)

SettingsCalled == pc \in {"stat1", "stat2", "returned"} /\ setting.raw # Absent

\* the tokens of the relative settings that name the file: tools/x
RelativeStem == <<"tools", "x">>

\* C11: in an untrusted workspace, for a path the safety predicate rejects,
\* and for a relative path with no workspace folder, the call returns absent
\* and asks stat about nothing; a relative path is otherwise looked for
\* under the first workspace folder and under no later one.
C11_GatesBeforeStat ==
  SettingsCalled =>
    /\ (~setting.trusted \/ ~setting.safe \/ (~setting.abs /\ wsFolders = <<>>))
         => (pc = "returned" /\ result = Absent /\ statLog = <<>>)
    /\ (~setting.abs /\ statLog # <<>>) =>
         \A i \in DOMAIN statLog :
           statLog[i] \in {wsFolders[1] \o RelativeStem,
                           Append(wsFolders[1] \o RelativeStem, ".exe")}

\* C11 happens: the configured file exists, the path is safe, the workspace
\* is not trusted, and the call returned absent without a stat
C11_Witness ==
  /\ pc = "returned"
  /\ setting.raw = W1Tool
  /\ setting.abs
  /\ setting.safe
  /\ ~setting.trusted
  /\ W1Tool \in files
  /\ result = Absent
  /\ statLog = <<>>

\* the second stat and the result it leads to, when the first path was not
\* found on win32 and the second asks about path second
SecondCheck(second) ==
  /\ Len(statLog) = 2
  /\ statLog[2] = second
  /\ pc = "returned" => result = (IF second \in files THEN second ELSE Absent)

\* C12 as stated: on Windows, whenever the path is not found, the path with
\* ".exe" added to its end is checked and returned if it exists, for every
\* configured path; elsewhere there is no second check.
C12_ExeAlwaysAppended ==
  (pc \in {"stat2", "returned"} /\ statLog # <<>> /\ statLog[1] \notin files) =>
    IF platform = "win32"
      THEN SecondCheck(Append(statLog[1], ".exe"))
      ELSE Len(statLog) = 1 /\ result = Absent

\* C12 amended: on Windows, when the path is not found, a second check is
\* made: of the path with ".exe" added to its end when it does not end in
\* ".exe" already, of the very same path when it does; the path of the
\* second check is returned if it exists.  Elsewhere there is no second
\* check.
C12_ExeAppendedUnlessPresent ==
  (pc \in {"stat2", "returned"} /\ statLog # <<>> /\ statLog[1] \notin files) =>
    IF platform = "win32"
      THEN SecondCheck(IF statLog[1][Len(statLog[1])] = ".exe"
                         THEN statLog[1] ELSE Append(statLog[1], ".exe"))
      ELSE Len(statLog) = 1 /\ result = Absent

\* C12 happens: on win32 the configured path is missing, the one with
\* ".exe" exists and is returned
C12_Witness ==
  /\ pc = "returned"
  /\ platform = "win32"
  /\ setting.raw = W1Tool
  /\ setting.abs
  /\ W1Tool \notin files
  /\ statLog = <<W1Tool, Append(W1Tool, ".exe")>>
  /\ result = Append(W1Tool, ".exe")

----------------------------------------------------------------------------
(* Claims about manifests that do not parse *)

\* the directories the walk reads: from the starting file's upwards, the
\* filesystem root left out
WalkedManifestDirs == ManifestDirs \ {<<>>}
InnermostWalked ==
  CHOOSE d \in WalkedManifestDirs : \A e \in WalkedManifestDirs : Len(e) <= Len(d)

\* C19 as stated: a package.json that exists but does not parse never ends
\* the walk with an error; the walk goes on to the parent.
C19_UnparsableWalksOn ==
  Called => resolution # Failure("SyntaxError")

\* C19 amended: the walk stops at the innermost directory it reads whose
\* package.json exists, parsable or not: when that file does not parse,
\* resolution fails with the parse error, whatever the manifests further up
\* declare; and an unparsable innermost manifest never lets a call succeed.
C19_UnparsableEndsWalk ==
  Called =>
    /\ (WalkedManifestDirs # {} /\ readFileSync(InnermostWalked) = Unparsable)
         => resolution = Failure("SyntaxError")
    /\ (HasInnermost /\ readFileSync(Innermost) = Unparsable) => ~resolution.ok
    /\ resolution = Failure("SyntaxError")
         => (WalkedManifestDirs # {} /\ readFileSync(InnermostWalked) = Unparsable)

\* C19 happens: the package.json nearest to the starting file does not
\* parse, the one above it has a string bin, and the call fails on the first
C19_Witness ==
  /\ Called
  /\ WalkedManifestDirs # {}
  /\ readFileSync(InnermostWalked) = Unparsable
  /\ Len(InnermostWalked) >= 2
  /\ readFileSync(dirname(InnermostWalked)) = BinString(EntryX)
  /\ resolution = Failure("SyntaxError")

----------------------------------------------------------------------------
(* Claims about searchGlobalNodeModulesBin *)

GlobalCalled == spawned # <<>>

\* the query of a package manager's global root gave a root: it neither
\* failed nor exited non-zero nor printed only whitespace
QueryGaveRoot(r) ==
  /\ ~r.threw
  /\ ~r.error
  /\ r.status = 0
  /\ \E i \in DOMAIN r.stdout : r.stdout[i] \notin Whitespace

\* the three roots in their fixed order, those whose query gave none left out
ExpectedRoots ==
  (IF QueryGaveRoot(spawned[1]) THEN <<NpmRoot>> ELSE <<>>)
    \o (IF QueryGaveRoot(spawned[2]) THEN <<PnpmRoot>> ELSE <<>>)
    \o <<BunRoot>>

\* the roots of the call, as the code computed them
SearchRoots == globalNodeModulesPaths(spawned[1], spawned[2])

\* the list is the three roots in order with the absent ones removed, the
\* probe is started on that list, and the list is never empty
RootsAsSpecified ==
  GlobalCalled =>
    /\ SearchRoots = ExpectedRoots
    /\ SearchRoots # <<>>
    /\ SearchRoots[Len(SearchRoots)] = BunRoot
    /\ pc = "global" => folders = ExpectedRoots

\* the roots, by position, that hold the binary: in .bin in a form the
\* platform looks for, or as the bin of the package installed there
RootsHolding ==
  {k \in DOMAIN ExpectedRoots :
     \/ BinPath(ExpectedRoots[k], binaryName) \in files
     \/ platform = "win32" /\ Exe(BinPath(ExpectedRoots[k], binaryName)) \in files
     \/ LET pkg == readFileSync(join(ExpectedRoots[k], <<"x">>))
        IN pkg.kind = "json" /\ binEntryOf(pkg, binaryName) # <<>>}

EarliestHolding == CHOOSE k \in RootsHolding : \A h \in RootsHolding : k <= h

\* the roots, by position, whose .bin holds the binary
BinHits ==
  {k \in DOMAIN ExpectedRoots :
     \/ BinPath(ExpectedRoots[k], binaryName) \in files
     \/ platform = "win32" /\ Exe(BinPath(ExpectedRoots[k], binaryName)) \in files}

FirstBinHit == CHOOSE k \in BinHits : \A h \in BinHits : k <= h

\* C20 as stated: the roots are npm's, pnpm's and bun's in that order with
\* the absent ones removed, the list is never empty, and a binary present in
\* several roots is returned from the earliest of them.
C20_EarliestRootAlways ==
  /\ RootsAsSpecified
  /\ (pc = "returned" /\ GlobalCalled /\ Cardinality(RootsHolding) >= 2)
       => Under(result, ExpectedRoots[EarliestHolding])

\* C20 amended: the same list of roots; and when the manifest-based
\* resolution fails, the call returns the .bin candidate of the earliest
\* root that has one, and absent when none has.
C20_EarliestRootWhenProbing ==
  /\ RootsAsSpecified
  /\ (pc = "returned" /\ GlobalCalled /\ ~resolution.ok) =>
       IF BinHits = {} THEN result = Absent
       ELSE result =
         (IF BinPath(ExpectedRoots[FirstBinHit], binaryName) \in files
            THEN BinPath(ExpectedRoots[FirstBinHit], binaryName)
            ELSE Exe(BinPath(ExpectedRoots[FirstBinHit], binaryName)))

\* C20 happens: npm's query exited non-zero although it printed its root,
\* the roots left are pnpm's and bun's, both hold the binary in .bin, no
\* manifest resolved, and pnpm's candidate is returned
C20_Witness ==
  /\ pc = "returned"
  /\ GlobalCalled
  /\ spawned[1].status # 0
  /\ QueryGaveRoot(spawned[2])
  /\ ~resolution.ok
  /\ BinPath(NpmRoot, binaryName) \in files
  /\ BinPath(BunRoot, binaryName) \in files
  /\ result = BinPath(PnpmRoot, binaryName)

----------------------------------------------------------------------------
(* Claims about runExecutable *)

Launched == launches > 0

\* the path ends in .js, .cjs or .mjs
HasScriptExtension(p) ==
  p # <<>> /\ (p[Len(p)] = ".js" \/ p[Len(p)] = ".cjs" \/ p[Len(p)] = ".mjs")

\* the check of the canonical command was run and failed
PathCheckFailed == spawns # <<>> /\ ~spawnOk(spawns[1].result)

\* C13: the tiers are tried in order and each at most once: with an explicit
\* path no subprocess is run and the path is the runtime as given; the first
\* subprocess is the canonical command and, when it succeeds, it is the only
\* one and the runtime is the command name; the login shell is run only
\* second, after the canonical command failed; no command is run twice.
C13_TiersInOrderOnce ==
  Launched =>
    /\ call.nodePath # Absent =>
         /\ spawns = <<>>
         /\ runtime.path = call.nodePath
         /\ HasScriptExtension(call.path) => descriptor.command = call.nodePath
    /\ Len(spawns) <= 2
    /\ \A i, j \in DOMAIN spawns : i # j => spawns[i].command # spawns[j].command
    /\ spawns # <<>> => spawns[1].command = NodeCommand
    /\ (spawns # <<>> /\ spawnOk(spawns[1].result)) =>
         /\ Len(spawns) = 1
         /\ runtime.path = NodeCommand
         /\ descriptor.command = NodeCommand
    /\ Len(spawns) = 2 =>
         /\ spawns[2].command = processEnv.SHELL
         /\ PathCheckFailed

\* C13 happens: no explicit path, the canonical command failed, and the
\* login shell was run after it, once
C13_Witness ==
  /\ Launched
  /\ call.nodePath = Absent
  /\ PathCheckFailed
  /\ Len(spawns) = 2
  /\ spawns[2].command = Zsh
  /\ runtime.tier = "login"

\* the login-shell lookup gave nothing: no shell is configured, or the shell
\* was run and threw, timed out, exited non-zero or printed no line
LoginLookupFailed ==
  \/ processEnv.SHELL = Absent
  \/ /\ Len(spawns) = 2
     /\ \/ spawns[2].result.threw
        \/ spawns[2].result.error
        \/ spawns[2].result.status # 0
        \/ \A k \in DOMAIN spawns[2].result.stdout :
             spawns[2].result.stdout[k] = "\n"

\* C14: when the check of the canonical command and the login-shell lookup
\* both fail, the runtime is process.execPath, it is the command, and the
\* child's environment has ELECTRON_RUN_AS_NODE = "1".
C14_HostRuntimeFallback ==
  (Launched /\ PathCheckFailed /\ LoginLookupFailed) =>
    /\ runtime.path = ExecPath
    /\ descriptor.command = ExecPath
    /\ descriptor.env.ELECTRON_RUN_AS_NODE = "1"

\* C14 happens: the canonical command exited non-zero, the login shell
\* timed out, and the host runtime is launched as a bare interpreter
C14_Witness ==
  /\ Launched
  /\ PathCheckFailed
  /\ Len(spawns) = 2
  /\ spawns[2].result.error
  /\ descriptor.command = ExecPath
  /\ descriptor.env.ELECTRON_RUN_AS_NODE = "1"

\* positions i..j of out are a whole line
IsLine(out, i, j) ==
  /\ i <= j
  /\ \A k \in i..j : out[k] # "\n"
  /\ i = 1 \/ out[i - 1] = "\n"
  /\ j = Len(out) \/ out[j + 1] = "\n"

\* C15: when the canonical command failed and the login shell succeeded,
\* the runtime is the last non-empty line the shell printed, whatever empty
\* and noise lines come before it.
C15_LastNonEmptyLine ==
  (Launched /\ PathCheckFailed /\ Len(spawns) = 2 /\ spawnOk(spawns[2].result)) =>
    LET out == spawns[2].result.stdout IN
      \A i, j \in DOMAIN out :
        (IsLine(out, i, j) /\ \A k \in (j + 1)..Len(out) : out[k] = "\n") =>
          /\ runtime.path = SubSeq(out, i, j)
          /\ descriptor.command = SubSeq(out, i, j)

\* C15 happens: the shell printed a noise line and then the runtime's path,
\* and the path is the command
C15_Witness ==
  /\ Launched
  /\ PathCheckFailed
  /\ Len(spawns) = 2
  /\ spawns[2].result.stdout = <<"noise", "\n">> \o HomebrewNode \o <<"\n">>
  /\ descriptor.command = HomebrewNode

\* C16: a target ending in .js, .cjs or .mjs gives the runtime as command and
\* the arguments [target, "--lsp"]; any other target gives the arguments
\* ["--lsp"], on win32 with the target in double quotes as command and
\* shell true, elsewhere with the bare target as command and shell false.
C16_ByExtensionAndPlatform ==
  Launched =>
    IF HasScriptExtension(call.path)
      THEN /\ runtime.path # Absent
           /\ descriptor.command = runtime.path
           /\ descriptor.args = <<call.path, <<"--lsp">>>>
      ELSE /\ descriptor.args = <<<<"--lsp">>>>
           /\ IF platform = "win32"
                THEN /\ descriptor.command = <<"\"">> \o call.path \o <<"\"">>
                     /\ descriptor.shell = TRUE
                ELSE /\ descriptor.command = call.path
                     /\ descriptor.shell = FALSE

\* C16 happens: on win32 a binary whose path has spaces is launched
C16_Witness ==
  /\ Launched
  /\ platform = "win32"
  /\ call.path = <<"Path With Spaces", "oxc-language-server">>
  /\ descriptor.shell = TRUE
  /\ descriptor.args = <<<<"--lsp">>>>

\* the command is wrapped in double quotes
IsQuoted(c) == Len(c) >= 2 /\ c[1] = "\"" /\ c[Len(c)] = "\""

\* C17: no Executable has shell true with a command that is not wrapped in
\* double quotes.
C17_ShellImpliesQuoted ==
  Launched => (descriptor.shell => IsQuoted(descriptor.command))

\* C17 happens: a second call, with an explicit runtime, launches a binary
\* through the shell
C17_Witness ==
  /\ launches = 2
  /\ call.nodePath = CustomNode
  /\ descriptor.shell
  /\ IsQuoted(descriptor.command)

\* a runtime path was resolved: a path, not the bare canonical command
RuntimePathResolved == runtime.path # Absent /\ runtime.path # NodeCommand

----------------------------------------------------------------------------
(* Claims about clears during a scan and about failed scans *)

\* scan p ended after a clear that came while it was pending
OvertakenByClear(p) ==
  promises[p].state # "pending" /\ promises[p].endEpoch > promises[p].epoch

\* C21: the memo is empty or holds the scan started last, and that scan was
\* started after the last clear; a scan a clear overtook is never the memo's,
\* yet its callers get its result, with every package.json that was on disk
\* when it began; and the calls made after a clear share a scan that the
\* first of them started.
C21_ClearDuringScan ==
  /\ cache # NoPromise =>
       /\ cache = Len(promises)
       /\ promises[cache].epoch = clears
       /\ ~OvertakenByClear(cache)
  /\ \A c \in Callers :
       (Holding(c) /\ OvertakenByClear(held[c].pid)
          /\ promises[held[c].pid].state = "fulfilled") =>
         {NodeModules(d) : d \in promises[held[c].pid].start}
           \subseteq ValueSet(held[c].pid)
  /\ \A c \in Callers :
       Holding(c) =>
         \E d \in Callers :
           /\ Holding(d)
           /\ held[d].epoch = held[c].epoch
           /\ held[d].seen = "new"
           /\ held[d].pid = held[c].pid

\* C21 happens: the cache was cleared while the first scan was pending; the
\* caller that had attached to it got its result afterwards, the first call
\* after the clear started the second scan, and the memo holds that one
C21_Witness ==
  \E c, d \in Callers :
    /\ Holding(c) /\ held[c].epoch = 0 /\ held[c].pid = 1
    /\ promises[1].state = "fulfilled"
    /\ promises[1].endEpoch = 1
    /\ NodeModules(W1) \in ValueSet(1)
    /\ Holding(d) /\ held[d].epoch = 1 /\ held[d].seen = "new" /\ held[d].pid = 2
    /\ cache = 2
    /\ clears = 1

\* C22: a call that found the memo's scan failed got that same failed scan
\* and started none; a scan that follows a failed one was started after a
\* clear.
C22_FailureMemoized ==
  /\ \A c \in Callers :
       (Holding(c) /\ held[c].seen = "rejected") =>
         /\ promises[held[c].pid].state = "rejected"
         /\ promises[held[c].pid].epoch = held[c].epoch
         /\ \A q \in DOMAIN promises :
              promises[q].epoch = held[c].epoch => q = held[c].pid
  /\ \A p, q \in DOMAIN promises :
       (p < q /\ promises[p].state = "rejected") =>
         promises[q].epoch > promises[p].epoch

\* C22 happens: a scan failed, a later call without a clear got the same
\* failure, and after a clear the next call started a new scan
C22_Witness ==
  \E c, d, e \in Callers :
    /\ Holding(c) /\ held[c].seen = "new"
    /\ Holding(d) /\ held[d].seen = "rejected"
    /\ held[d].pid = held[c].pid /\ held[d].epoch = held[c].epoch
    /\ Holding(e) /\ held[e].seen = "new"
    /\ held[e].epoch = held[c].epoch + 1
    /\ held[e].pid # held[c].pid

====
